---- MODULE Spec2Model ----
(***************************************************************************)
(* A model of utils/map_repo_urls.py: the driver main() composing          *)
(* iter_service_metadata, iter_repo_urls and run_command_on_repo.          *)
(*                                                                         *)
(* Python values are modelled as follows.  A dict is a function whose      *)
(* domain is the set of keys that are present; a list is a sequence; a str *)
(* is a string, except that a command line is a sequence of tokens so that *)
(* str.replace can be computed; None is the string NoneValue when it       *)
(* stands where a str may stand, and NoneCmd when it stands where a        *)
(* command line may stand.                                                 *)
(***************************************************************************)
EXTENDS Integers, Sequences, FiniteSets, TLC

\* ------------------------------------------------------------------ bounds

MaxFiles == 2

MaxRepos == 2

\* ------------------------------------------------------------ Python values

NoneValue == "<None>"

NoneCmd == << >>

EmptyDict == [k \in {} |-> NoneValue]

\* dict.get(key, default)
Get(d, key, default) == IF key \in DOMAIN d THEN d[key] ELSE default

\* Truth value of an optional str: None and "" are false.
Truthy(v) == v # NoneValue /\ v # ""

\* `a or b` on optional strs
Or(a, b) == IF Truthy(a) THEN a ELSE b

\* Truth value of a list
TruthyList(l) == l # << >>

SeqsUpTo(S, n) == UNION {[1..k -> S] : k \in 0..n}

\* ------------------------------------------------------------------ inputs

\* A file named on the command line: one that open() cannot read, one whose
\* contents json.load rejects, or one holding a JSON object.
Unreadable == [status |-> "unreadable"]

Invalid == [status |-> "invalid"]

Loaded(d) == [status |-> "ok", json |-> d]

RepoEntry(u) == [url |-> u]

\* Every codeRepositories value up to MaxRepos entries, and the key absent.
RepoParts(entries) ==
    {EmptyDict} \cup
    {[codeRepositories |-> l] : l \in SeqsUpTo(entries, MaxRepos)}

\* The name keys of a metadata object, every combination of absent, empty
\* and non-empty.
NameParts ==
    {s @@ k : s \in {EmptyDict, [service |-> ""], [service |-> "Tiles"]},
              k \in {EmptyDict, [serviceKey |-> ""], [serviceKey |-> "tiles"]}}

\* The files of a run on one file.
SingleFiles ==
    {Unreadable, Invalid} \cup
    {Loaded(n @@ r) :
        n \in NameParts,
        r \in RepoParts({EmptyDict, RepoEntry(""), RepoEntry("a.git"), RepoEntry("b.git")})}

\* The files of a run on several files.
SeveralFiles ==
    {Unreadable, Invalid} \cup
    {Loaded(n @@ r) :
        n \in {[service |-> "Tiles"], [serviceKey |-> "shavar"]},
        r \in {EmptyDict} \cup
              {[codeRepositories |-> l] :
                 l \in {<< >>,
                        <<EmptyDict>>,
                        <<RepoEntry("a.git")>>,
                        <<RepoEntry("b.git")>>,
                        <<RepoEntry("c.git"), EmptyDict, RepoEntry("d.git")>>}}}

\* argparse: FILES is nargs="+".
Argv ==
    {<<f>> : f \in SingleFiles} \cup
    UNION {[1..n -> SeveralFiles] : n \in 2..MaxFiles}

Templates == {<<"echo", "{}">>, <<"echo", "{}", "{}">>}

\* ------------------------------------------------------------------- state

VARIABLES
    json_files,     \* args.json_files
    cmd,            \* args.cmd: NoneCmd when -c is omitted
    dry_run,        \* args.dry_run
    quiet,          \* args.quiet
    generator_stop, \* the interpreter turns StopIteration raised in a generator into RuntimeError
    level,          \* the logger's threshold
    pc,             \* position of main()
    file_idx,       \* files consumed from iter_service_metadata
    service_meta,   \* the loop variable of main's outer for
    i,              \* enumerate index of iter_repo_urls, entries consumed
    repo_url,       \* the loop variable of main's inner for
    warned,         \* logger.warn calls, in order
    log,            \* records the logger emitted
    yielded,        \* per file consumed, the URLs iter_repo_urls yielded
    handed,         \* command lines passed to run_command_on_repo
    stdout,         \* lines printed
    executed,       \* command lines passed to subprocess.run
    running,        \* child processes alive
    failed,         \* some child has exited non-zero
    error,          \* the uncaught exception, "" when none
    exit_code       \* the process's exit status, -1 while it runs

vars == <<json_files, cmd, dry_run, quiet, generator_stop, level, pc, file_idx,
          service_meta, i, repo_url, warned, log, yielded, handed, stdout,
          executed, running, failed, error, exit_code>>

args == <<json_files, cmd, dry_run, quiet, generator_stop>>

Init ==
    /\ json_files \in Argv
    /\ cmd \in {NoneCmd} \cup Templates
    /\ dry_run \in BOOLEAN
    /\ quiet \in BOOLEAN
    /\ generator_stop \in BOOLEAN
    /\ level = "WARNING"
    /\ pc = "start"
    /\ file_idx = 0
    /\ service_meta = EmptyDict
    /\ i = 0
    /\ repo_url = NoneValue
    /\ warned = << >>
    /\ log = << >>
    /\ yielded = << >>
    /\ handed = << >>
    /\ stdout = << >>
    /\ executed = << >>
    /\ running = {}
    /\ failed = FALSE
    /\ error = ""
    /\ exit_code = -1

\* ---------------------------------------------------------------- helpers

\* get_service_name with the two keys looked up in the other order
get_service_name_KeyFirst(meta) ==
    Or(Get(meta, "serviceKey", NoneValue),
       Or(Get(meta, "service", NoneValue), "unnamed"))

\* get_service_name(service_meta, fallback="unnamed")
get_service_name(meta) ==
    Or(Get(meta, "service", NoneValue),
       Or(Get(meta, "serviceKey", NoneValue), "unnamed"))

\* args.cmd.replace("{}", repo_url): every occurrence of the placeholder
replace(template, url) ==
    [k \in DOMAIN template |-> IF template[k] = "{}" THEN url ELSE template[k]]

\* service_meta.get("codeRepositories", [])
Repos(meta) == Get(meta, "codeRepositories", << >>)

AppendLast(s, x) == [s EXCEPT ![Len(s)] = Append(@, x)]

\* logger.warn(msg): recorded as a call, emitted when the threshold allows
Warn(msg) ==
    /\ warned' = AppendLast(warned, msg)
    /\ log' = IF level = "WARNING" THEN Append(log, msg) ELSE log

\* An exception nobody catches: traceback, exit status 1.
Raise(exc) ==
    /\ error' = exc
    /\ exit_code' = 1
    /\ pc' = "done"

\* ---------------------------------------------------------------- actions

\* main without its setLevel call
Configure_KeepsLevel ==
    /\ pc = "start"
    /\ pc' = "next_file"
    /\ UNCHANGED <<args, level, file_idx, service_meta, i, repo_url, warned,
                   log, yielded, handed, stdout, executed, running, failed,
                   error, exit_code>>

\* main: if args.quiet: logger.setLevel("ERROR")
Configure ==
    /\ pc = "start"
    /\ level' = IF quiet THEN "ERROR" ELSE level
    /\ pc' = "next_file"
    /\ UNCHANGED <<args, file_idx, service_meta, i, repo_url, warned, log,
                   yielded, handed, stdout, executed, running, failed, error,
                   exit_code>>

\* iter_service_metadata: the next file opens and parses
LoadFile ==
    /\ pc = "next_file"
    /\ file_idx < Len(json_files)
    /\ json_files[file_idx + 1].status = "ok"
    /\ file_idx' = file_idx + 1
    /\ service_meta' = json_files[file_idx + 1].json
    /\ yielded' = Append(yielded, << >>)
    /\ warned' = Append(warned, << >>)
    /\ pc' = "iter_repo_urls"
    /\ UNCHANGED <<args, level, i, repo_url, log, handed, stdout, executed,
                   running, failed, error, exit_code>>

\* iter_service_metadata: open() or json.load raises
LoadFails ==
    /\ pc = "next_file"
    /\ file_idx < Len(json_files)
    /\ json_files[file_idx + 1].status # "ok"
    /\ file_idx' = file_idx + 1
    /\ Raise(IF json_files[file_idx + 1].status = "unreadable"
             THEN "OSError" ELSE "JSONDecodeError")
    /\ UNCHANGED <<args, level, service_meta, i, repo_url, warned, log,
                   yielded, handed, stdout, executed, running, failed>>

\* iter_service_metadata is exhausted: main returns
Finish ==
    /\ pc = "next_file"
    /\ file_idx = Len(json_files)
    /\ pc' = "done"
    /\ exit_code' = 0
    /\ UNCHANGED <<args, level, file_idx, service_meta, i, repo_url, warned,
                   log, yielded, handed, stdout, executed, running, failed,
                   error>>

\* iter_repo_urls up to its for loop: no repositories, warn and
\* raise StopIteration.  Inside a generator that ends the iteration on
\* Python 3.5 and 3.6, and becomes RuntimeError("generator raised
\* StopIteration") in the caller from Python 3.7 on (PEP 479).
NoRepos ==
    /\ pc = "iter_repo_urls"
    /\ ~TruthyList(Repos(service_meta))
    /\ Warn(<<"No codeRepositories found for service",
              get_service_name(service_meta)>>)
    /\ IF generator_stop
       THEN Raise("RuntimeError")
       ELSE /\ pc' = "next_file"
            /\ UNCHANGED <<error, exit_code>>
    /\ UNCHANGED <<args, level, file_idx, service_meta, i, repo_url, yielded,
                   handed, stdout, executed, running, failed>>

\* iter_repo_urls up to its for loop: there are repositories
EnterRepos ==
    /\ pc = "iter_repo_urls"
    /\ TruthyList(Repos(service_meta))
    /\ i' = 0
    /\ pc' = "repo_loop"
    /\ UNCHANGED <<args, level, file_idx, service_meta, repo_url, warned, log,
                   yielded, handed, stdout, executed, running, failed, error,
                   exit_code>>

\* SkipRepo with enumerate(..., 1)
SkipRepo_OneBased ==
    /\ pc = "repo_loop"
    /\ i < Len(Repos(service_meta))
    /\ ~Truthy(Get(Repos(service_meta)[i + 1], "url", NoneValue))
    /\ Warn(<<"No url found for repo", get_service_name(service_meta),
              "in service", i + 1>>)
    /\ i' = i + 1
    /\ UNCHANGED <<args, level, pc, file_idx, service_meta, repo_url, yielded,
                   handed, stdout, executed, running, failed, error, exit_code>>

\* iter_repo_urls' for loop: an entry without a url
SkipRepo ==
    /\ pc = "repo_loop"
    /\ i < Len(Repos(service_meta))
    /\ ~Truthy(Get(Repos(service_meta)[i + 1], "url", NoneValue))
    /\ Warn(<<"No url found for repo", get_service_name(service_meta),
              "in service", i>>)
    /\ i' = i + 1
    /\ UNCHANGED <<args, level, pc, file_idx, service_meta, repo_url, yielded,
                   handed, stdout, executed, running, failed, error, exit_code>>

\* iter_repo_urls' for loop: an entry with a url
YieldRepo ==
    /\ pc = "repo_loop"
    /\ i < Len(Repos(service_meta))
    /\ Truthy(Get(Repos(service_meta)[i + 1], "url", NoneValue))
    /\ repo_url' = Get(Repos(service_meta)[i + 1], "url", NoneValue)
    /\ yielded' = AppendLast(yielded, repo_url')
    /\ i' = i + 1
    /\ pc' = "body"
    /\ UNCHANGED <<args, level, file_idx, service_meta, warned, log, handed,
                   stdout, executed, running, failed, error, exit_code>>

\* iter_repo_urls' for loop is over
ReposDone ==
    /\ pc = "repo_loop"
    /\ i = Len(Repos(service_meta))
    /\ pc' = "next_file"
    /\ UNCHANGED <<args, level, file_idx, service_meta, i, repo_url, warned,
                   log, yielded, handed, stdout, executed, running, failed,
                   error, exit_code>>

\* main's loop body without -c: None has no replace
NoCommand ==
    /\ pc = "body"
    /\ cmd = NoneCmd
    /\ Raise("AttributeError")
    /\ UNCHANGED <<args, level, file_idx, service_meta, i, repo_url, warned,
                   log, yielded, handed, stdout, executed, running, failed>>

\* DryRun without its return: the command is printed and run
DryRun_FallsThrough ==
    /\ pc = "body"
    /\ cmd # NoneCmd
    /\ dry_run
    /\ handed' = Append(handed, replace(cmd, repo_url))
    /\ stdout' = Append(stdout, <<"would run", replace(cmd, repo_url)>>)
    /\ executed' = Append(executed, replace(cmd, repo_url))
    /\ running' = running \cup {Len(executed) + 1}
    /\ pc' = "wait"
    /\ UNCHANGED <<args, level, file_idx, service_meta, i, repo_url, warned,
                   log, yielded, failed, error, exit_code>>

\* run_command_on_repo(cmd, dry_run) with dry_run
DryRun ==
    /\ pc = "body"
    /\ cmd # NoneCmd
    /\ dry_run
    /\ handed' = Append(handed, replace(cmd, repo_url))
    /\ stdout' = Append(stdout, <<"would run", replace(cmd, repo_url)>>)
    /\ pc' = "repo_loop"
    /\ UNCHANGED <<args, level, file_idx, service_meta, i, repo_url, warned,
                   log, yielded, executed, running, failed, error, exit_code>>

\* RunCommand with subprocess.Popen: the shell is started and not waited for
RunCommand_NoWait ==
    /\ pc = "body"
    /\ cmd # NoneCmd
    /\ ~dry_run
    /\ handed' = Append(handed, replace(cmd, repo_url))
    /\ executed' = Append(executed, replace(cmd, repo_url))
    /\ running' = running \cup {Len(executed) + 1}
    /\ pc' = "repo_loop"
    /\ UNCHANGED <<args, level, file_idx, service_meta, i, repo_url, warned,
                   log, yielded, stdout, failed, error, exit_code>>

\* run_command_on_repo(cmd, dry_run) without dry_run: subprocess.run
\* starts the shell and waits for it
RunCommand ==
    /\ pc = "body"
    /\ cmd # NoneCmd
    /\ ~dry_run
    /\ handed' = Append(handed, replace(cmd, repo_url))
    /\ executed' = Append(executed, replace(cmd, repo_url))
    /\ running' = running \cup {Len(executed) + 1}
    /\ pc' = "wait"
    /\ UNCHANGED <<args, level, file_idx, service_meta, i, repo_url, warned,
                   log, yielded, stdout, failed, error, exit_code>>

\* ChildExit with subprocess.run(..., check=True): a non-zero status raises
ChildExit_Checked ==
    /\ \E child \in running, status \in {0, 1} :
        /\ running' = running \ {child}
        /\ failed' = (failed \/ status # 0)
        /\ IF status # 0
           THEN Raise("CalledProcessError")
           ELSE /\ pc' = (IF pc = "wait" THEN "repo_loop" ELSE pc)
                /\ UNCHANGED <<error, exit_code>>
    /\ UNCHANGED <<args, level, file_idx, service_meta, i, repo_url, warned,
                   log, yielded, handed, stdout, executed>>

\* The child exits with some status; subprocess.run returns a
\* CompletedProcess that main drops
ChildExit ==
    /\ \E child \in running, status \in {0, 1} :
        /\ running' = running \ {child}
        /\ failed' = (failed \/ status # 0)
    /\ pc' = IF pc = "wait" THEN "repo_loop" ELSE pc
    /\ UNCHANGED <<args, level, file_idx, service_meta, i, repo_url, warned,
                   log, yielded, handed, stdout, executed, error, exit_code>>

Next ==
    \/ Configure
    \/ LoadFile
    \/ LoadFails
    \/ Finish
    \/ NoRepos
    \/ EnterRepos
    \/ SkipRepo
    \/ YieldRepo
    \/ ReposDone
    \/ NoCommand
    \/ DryRun
    \/ RunCommand
    \/ ChildExit

Spec == Init /\ [][Next]_vars

\* ------------------------------------------------- what a run should produce

RECURSIVE Flatten(_)
Flatten(ss) == IF ss = << >> THEN << >> ELSE Head(ss) \o Flatten(Tail(ss))

\* The non-empty urls of a codeRepositories list, in entry order
RECURSIVE Urls(_)
Urls(repos) ==
    IF repos = << >> THEN << >>
    ELSE (IF Truthy(Get(Head(repos), "url", NoneValue))
          THEN <<Head(repos).url>> ELSE << >>) \o Urls(Tail(repos))

\* One warning per entry of repos[idx+1..] without a url, carrying the
\* entry's 0-based index
RECURSIVE UrlWarnings(_, _, _)
UrlWarnings(name, repos, idx) ==
    IF idx >= Len(repos) THEN << >>
    ELSE (IF Truthy(Get(repos[idx + 1], "url", NoneValue))
          THEN << >>
          ELSE << <<"No url found for repo", name, "in service", idx>> >>)
         \o UrlWarnings(name, repos, idx + 1)

\* The display name as the documentation gives it: service, else serviceKey,
\* else "unnamed"
DisplayName(meta) ==
    IF "service" \in DOMAIN meta /\ meta.service # "" THEN meta.service
    ELSE IF "serviceKey" \in DOMAIN meta /\ meta.serviceKey # "" THEN meta.serviceKey
    ELSE "unnamed"

Commands(urls) == [k \in DOMAIN urls |-> replace(cmd, urls[k])]

IsOk(f) == f.status = "ok"

\* The urls of the files that precede the first file that cannot be loaded
RECURSIVE UrlsUntilBadFile(_)
UrlsUntilBadFile(fs) ==
    IF fs = << >> \/ ~IsOk(Head(fs)) THEN << >>
    ELSE Urls(Repos(Head(fs).json)) \o UrlsUntilBadFile(Tail(fs))

\* How the run goes at one file, "" when it goes on to the next:
\* a function of the command line and the interpreter, but neither of -q nor
\* of what the children do
AtFile(f) ==
    IF f.status = "unreadable" THEN "OSError"
    ELSE IF f.status = "invalid" THEN "JSONDecodeError"
    ELSE IF Repos(f.json) = << >>
         THEN (IF generator_stop THEN "RuntimeError" ELSE "")
    ELSE IF cmd = NoneCmd /\ Urls(Repos(f.json)) # << >> THEN "AttributeError"
    ELSE ""

RECURSIVE RunError(_)
RunError(fs) ==
    IF fs = << >> THEN ""
    ELSE IF AtFile(Head(fs)) # "" THEN AtFile(Head(fs))
    ELSE RunError(Tail(fs))

RECURSIVE RunUrls(_)
RunUrls(fs) ==
    IF fs = << >> \/ AtFile(Head(fs)) # "" THEN << >>
    ELSE Urls(Repos(Head(fs).json)) \o RunUrls(Tail(fs))

\* iter_repo_urls has returned for the k-th file
Extracted(k) ==
    /\ k \in 1..Len(yielded)
    /\ \/ k < Len(yielded)
       \/ pc = "next_file"
       \/ pc = "done" /\ error \notin {"AttributeError", "RuntimeError"}

\* iter_repo_urls has returned or raised for the k-th file
Ended(k) ==
    \/ Extracted(k)
    \/ k = Len(yielded) /\ error = "RuntimeError"

AllLoaded == \A k \in DOMAIN json_files : IsOk(json_files[k])

\* The urls main has dealt with: the last one yielded is still in main's
\* hands while main is in its loop body, and stays there if the body raised
Processed ==
    LET ys == Flatten(yielded)
    IN  IF pc = "body" \/ error = "AttributeError"
        THEN SubSeq(ys, 1, Len(ys) - 1) ELSE ys

\* ------------------------------------------------------------------ claims

\* C1: a metadata object without codeRepositories is not fatal: with a
\* command given and every file loadable, the run ends with exit status 0
\* and the command of every url of every file has been passed to
\* run_command_on_repo.
C1_Claim ==
    (pc = "done" /\ cmd # NoneCmd /\ AllLoaded) =>
        /\ exit_code = 0
        /\ error = ""
        /\ handed = Commands(Flatten([k \in DOMAIN json_files |->
                                         Urls(Repos(json_files[k].json))]))

\* C2: without -c, every url iter_repo_urls has yielded and main has dealt
\* with has had its service name and url printed, nothing is executed and
\* no exception ends the run.
C2_Claim ==
    (cmd = NoneCmd /\ pc # "body") =>
        /\ executed = << >>
        /\ error # "AttributeError"
        /\ Len(stdout) = Len(Flatten(yielded))
        /\ \A k \in DOMAIN stdout : stdout[k][2] = Flatten(yielded)[k]

\* C3 as stated: for every file iter_repo_urls has returned on, with N entries
\* of which M have a non-empty url, it has yielded those M urls in order and
\* warned exactly N - M times, once per url-less entry with the entry's
\* 0-based index.
C3_Original ==
    \A k \in 1..Len(yielded) :
        Extracted(k) =>
            LET meta == json_files[k].json
                repos == Repos(meta)
            IN  /\ yielded[k] = Urls(repos)
                /\ Len(warned[k]) = Len(repos) - Len(Urls(repos))
                /\ warned[k] = UrlWarnings(get_service_name(meta), repos, 0)

\* C3 as amended: the same for every file whose codeRepositories list has
\* at least one entry; and the logger emits the warnings unless its
\* threshold was raised.
C3_Theorem ==
    /\ \A k \in 1..Len(yielded) :
        (Extracted(k) /\ Len(Repos(json_files[k].json)) >= 1) =>
            LET meta == json_files[k].json
                repos == Repos(meta)
            IN  /\ yielded[k] = Urls(repos)
                /\ Len(warned[k]) = Len(repos) - Len(Urls(repos))
                /\ warned[k] = UrlWarnings(get_service_name(meta), repos, 0)
    /\ level = "WARNING" => log = Flatten(warned)

\* A file of two or more entries, some with a url and the last without, on
\* which iter_repo_urls has returned.
C3_Witness ==
    \E k \in 1..Len(yielded) :
        /\ Extracted(k)
        /\ Len(Repos(json_files[k].json)) >= 2
        /\ Len(yielded[k]) >= 1
        /\ Len(warned[k]) >= 1
        /\ warned[k][Len(warned[k])][4] = Len(Repos(json_files[k].json)) - 1

\* C4: with a command given, when the run has ended the commands passed to
\* run_command_on_repo are those of the urls of the files that precede the
\* first unloadable file, in file order and then entry order.
C4_Claim ==
    (pc = "done" /\ cmd # NoneCmd) =>
        handed = Commands(UrlsUntilBadFile(json_files))

\* C5: with --dry-run no process is ever executed, and with a command given
\* every url main has dealt with has had its "would run" line printed; with
\* a command and without --dry-run every url main has dealt with has been
\* executed exactly once, in order, and nothing is printed.
C5_Theorem ==
    /\ dry_run => (executed = << >> /\ running = {})
    /\ (dry_run /\ cmd # NoneCmd) =>
          stdout = [k \in DOMAIN Processed |->
                       <<"would run", replace(cmd, Processed[k])>>]
    /\ (~dry_run /\ cmd # NoneCmd) =>
          /\ Len(executed) = Len(Processed)
          /\ executed = Commands(Processed)
          /\ stdout = << >>

\* A run without --dry-run that has ended after executing two or more
\* commands.
C5_Witness == pc = "done" /\ ~dry_run /\ Len(executed) >= 2

\* C6: with a command given, if some file cannot be loaded and k is the
\* first such file, the run ends at file k with that file's exception and a
\* non-zero exit status, having passed on exactly the commands of the urls
\* of files 1..k-1.
C6_Claim ==
    (pc = "done" /\ cmd # NoneCmd /\ ~AllLoaded) =>
        LET k == CHOOSE j \in DOMAIN json_files :
                    /\ ~IsOk(json_files[j])
                    /\ \A h \in 1..(j - 1) : IsOk(json_files[h])
        IN  /\ error = (IF json_files[k].status = "unreadable"
                        THEN "OSError" ELSE "JSONDecodeError")
            /\ exit_code # 0
            /\ file_idx = k
            /\ handed = Commands(Flatten([h \in 1..(k - 1) |->
                                             Urls(Repos(json_files[h].json))]))

\* C7: when a child exits, whatever its status, subprocess.run returns to
\* the for loop of iter_repo_urls: no exception, no exit status, no second
\* execution; and the commands executed and the exit status of a run that
\* has ended are those the command line determines, whether or not a child
\* has failed.
C7_Theorem ==
    /\ [][(running # {} /\ running' = {}) =>
            /\ pc' = "repo_loop"
            /\ error' = error
            /\ exit_code' = exit_code
            /\ executed' = executed
            /\ handed' = handed
            /\ i' = i
            /\ file_idx' = file_idx]_vars
    /\ []((pc = "done" /\ cmd # NoneCmd /\ ~dry_run) =>
            /\ executed = Commands(RunUrls(json_files))
            /\ exit_code = (IF RunError(json_files) = "" THEN 0 ELSE 1))

\* A run that has ended with exit status 0 after a child failed and a
\* later command was executed.
C7_Witness ==
    pc = "done" /\ failed /\ exit_code = 0 /\ Len(executed) >= 2

\* C8: for every file without codeRepositories entries on which
\* iter_repo_urls has ended, it has yielded nothing and warned once, naming
\* the service by service, else serviceKey, else "unnamed"; and the logger
\* emits the warnings unless its threshold was raised.
C8_Theorem ==
    /\ \A k \in 1..Len(yielded) :
        (Ended(k) /\ Repos(json_files[k].json) = << >>) =>
            /\ yielded[k] = << >>
            /\ warned[k] = << <<"No codeRepositories found for service",
                                DisplayName(json_files[k].json)>> >>
    /\ ~quiet => log = Flatten(warned)

\* A file without codeRepositories whose service is empty and whose
\* serviceKey names it, on which iter_repo_urls has ended.
C8_Witness ==
    \E k \in 1..Len(yielded) :
        /\ Ended(k)
        /\ "codeRepositories" \notin DOMAIN json_files[k].json
        /\ Get(json_files[k].json, "service", NoneValue) = ""
        /\ warned[k] = << <<"No codeRepositories found for service", "tiles">> >>

\* C9: with -q nothing is emitted; the threshold is the default until
\* main sets it, before any file is read, and depends on -q alone from then
\* on; and what a run that has ended passed on, executed and printed, and
\* the exception that ended it, are those that the rest of the command line
\* determines.
C9_Theorem ==
    /\ quiet => log = << >>
    /\ level = (IF quiet /\ pc # "start" THEN "ERROR" ELSE "WARNING")
    /\ pc = "start" => file_idx = 0
    /\ pc = "done" =>
        /\ error = RunError(json_files)
        /\ exit_code = (IF RunError(json_files) = "" THEN 0 ELSE 1)
        /\ handed = (IF cmd = NoneCmd THEN << >>
                     ELSE Commands(RunUrls(json_files)))
        /\ executed = (IF dry_run THEN << >> ELSE handed)
        /\ Len(stdout) = (IF dry_run THEN Len(handed) ELSE 0)

\* A run with -q that has ended after a warning was suppressed and a
\* command was passed on.
C9_Witness ==
    pc = "done" /\ quiet /\ Flatten(warned) # << >> /\ handed # << >>

\* C10: at most one child is alive, and while one is alive main is inside
\* subprocess.run.
C10_Theorem ==
    /\ Cardinality(running) <= 1
    /\ running # {} => (pc = "wait" /\ ~dry_run)

\* The second child of a run is alive.
C10_Witness == running = {2}
====
